---- MODULE Spec2Model ----
(***************************************************************************)
(* Record-store and domain-validation layer of the clinic / affiliate      *)
(* service: affiliates.py (affiliate registration, listing) and            *)
(* clinical.py (appointment scheduling, listing, cancellation).            *)
(*                                                                         *)
(* Python strings are modelled as sequences of one-character strings, so   *)
(* that strip(), lower(), "in", comparison, strptime(), int() and str()    *)
(* are computed character by character as the library computes them.       *)
(***************************************************************************)
EXTENDS Integers, Sequences, FiniteSets, TLC

VARIABLES
    afiliados,   \* rows of affiliates.csv, in file order
    citas,       \* records of appointments.txt, in file order
    users,       \* records of users.txt, in file order
    last,        \* the call being answered: operation, arguments, result, store before
                 \* it; NoCall when no request is in progress
    registered,  \* history: the records registerAffiliate answered "ok" for, in order
    cancelled,   \* history: the appointment ids cancelAppointment answered "ok" for
    opened,      \* history: per user name, the last successful openCloseSession
                 \* ("open", "closed", or "none" when there was none)
    procs        \* concurrent requests: per request slot its position (idle, loaded,
                 \* done), operation, arguments, loaded list and result

vars == <<afiliados, citas, users, last, registered, cancelled, opened, procs>>

(***************************************************************************)
(* Bounds of the model.                                                    *)
(***************************************************************************)
MaxAff == 2      \* registrations are explored while the store has fewer rows
MaxCitas == 3    \* appointments are explored while the store has fewer records

(***************************************************************************)
(* Characters and strings.                                                 *)
(***************************************************************************)
Digits == <<"0", "1", "2", "3", "4", "5", "6", "7", "8", "9">>

UpperCs == <<"A", "B", "C", "D", "E", "F", "G", "H", "I", "J", "K", "L", "M",
             "N", "O", "P", "Q", "R", "S", "T", "U", "V", "W", "X", "Y", "Z">>

LowerCs == <<"a", "b", "c", "d", "e", "f", "g", "h", "i", "j", "k", "l", "m",
             "n", "o", "p", "q", "r", "s", "t", "u", "v", "w", "x", "y", "z">>

\* The characters of the model in code-point order (str comparison is by code point).
Chars == <<"\t", " ", "\"", ",", ".", "/">> \o Digits \o <<":", "@">> \o UpperCs \o LowerCs

Ord(c) == CHOOSE i \in 1..Len(Chars) : Chars[i] = c

IsSpace(c) == c \in {" ", "\t"}

IsDigit(c) == \E i \in 1..Len(Digits) : Digits[i] = c

DigitVal(c) == (CHOOSE i \in 1..Len(Digits) : Digits[i] = c) - 1

\* str.lower() on one character
LowerChar(c) ==
    IF \E i \in 1..Len(UpperCs) : UpperCs[i] = c
    THEN LowerCs[CHOOSE i \in 1..Len(UpperCs) : UpperCs[i] = c]
    ELSE c

\* str.lower()
Lower(s) == [i \in 1..Len(s) |-> LowerChar(s[i])]

\* s.strip(): leading and trailing whitespace removed
RECURSIVE LStrip(_)
LStrip(s) == IF s # <<>> /\ IsSpace(Head(s)) THEN LStrip(Tail(s)) ELSE s

RECURSIVE RStrip(_)
RStrip(s) ==
    IF s # <<>> /\ IsSpace(s[Len(s)]) THEN RStrip(SubSeq(s, 1, Len(s) - 1)) ELSE s

Strip(s) == RStrip(LStrip(s))

\* "not s.strip()": the empty string is falsy
Blank(s) == Strip(s) = <<>>

\* c in s
Contains(s, c) == \E i \in 1..Len(s) : s[i] = c

\* s > t for str: lexicographic by code point, a proper prefix is smaller
RECURSIVE StrGt(_, _)
StrGt(s, t) ==
    IF s = <<>> THEN FALSE
    ELSE IF t = <<>> THEN TRUE
    ELSE IF Head(s) # Head(t) THEN Ord(Head(s)) > Ord(Head(t))
    ELSE StrGt(Tail(s), Tail(t))

\* s.split(sep) for a one-character separator
RECURSIVE SplitOn(_, _)
SplitOn(s, sep) ==
    IF ~Contains(s, sep) THEN <<s>>
    ELSE LET k == CHOOSE i \in 1..Len(s) :
                     s[i] = sep /\ \A j \in 1..(i - 1) : s[j] # sep
         IN  <<SubSeq(s, 1, k - 1)>> \o SplitOn(SubSeq(s, k + 1, Len(s)), sep)

\* int(s) for a string of decimal digits
RECURSIVE StrToInt(_)
StrToInt(s) ==
    IF s = <<>> THEN 0
    ELSE 10 * StrToInt(SubSeq(s, 1, Len(s) - 1)) + DigitVal(s[Len(s)])

\* str(n) for n >= 0
RECURSIVE IntToStr(_)
IntToStr(n) ==
    IF n < 10 THEN <<Digits[n + 1]>>
    ELSE IntToStr(n \div 10) \o <<Digits[(n % 10) + 1]>>

AllDigits(s) == \A i \in 1..Len(s) : IsDigit(s[i])

(***************************************************************************)
(* datetime.strptime, as the validators use it.  The format directives are *)
(* the regular expressions of the library (_strptime.TimeRE):              *)
(*   %d  3[0-1]|[1-2]\d|0[1-9]|[1-9]| [1-9]     %m  1[0-2]|0[1-9]|[1-9]    *)
(*   %Y  \d\d\d\d        %H  2[0-3]|[0-1]\d|\d        %M  [0-5]\d|\d       *)
(* and the whole string has to be consumed.  None of the directives        *)
(* matches the separator, so matching is splitting on the separator.       *)
(***************************************************************************)
MatchDay(p) ==
    \/ Len(p) = 1 /\ IsDigit(p[1]) /\ DigitVal(p[1]) >= 1
    \/ Len(p) = 2 /\ AllDigits(p) /\ StrToInt(p) >= 1 /\ StrToInt(p) <= 31
    \/ Len(p) = 2 /\ p[1] = " " /\ IsDigit(p[2]) /\ DigitVal(p[2]) >= 1

MatchMonth(p) ==
    \/ Len(p) = 1 /\ IsDigit(p[1]) /\ DigitVal(p[1]) >= 1
    \/ Len(p) = 2 /\ AllDigits(p) /\ StrToInt(p) >= 1 /\ StrToInt(p) <= 12

MatchYear(p) == Len(p) = 4 /\ AllDigits(p)

MatchHour(p) ==
    \/ Len(p) = 1 /\ IsDigit(p[1])
    \/ Len(p) = 2 /\ AllDigits(p) /\ StrToInt(p) <= 23

MatchMinute(p) ==
    \/ Len(p) = 1 /\ IsDigit(p[1])
    \/ Len(p) = 2 /\ AllDigits(p) /\ StrToInt(p) <= 59

IsLeap(y) == y % 4 = 0 /\ (y % 100 # 0 \/ y % 400 = 0)

DaysInMonth(y, m) ==
    IF m = 2 THEN (IF IsLeap(y) THEN 29 ELSE 28)
    ELSE IF m \in {4, 6, 9, 11} THEN 30 ELSE 31

\* datetime.date(y, m, d) raises ValueError outside these ranges (MINYEAR is 1)
ValidYMD(y, m, d) == y >= 1 /\ m >= 1 /\ m <= 12 /\ d >= 1 /\ d <= DaysInMonth(y, m)

NoDate == [ok |-> FALSE, y |-> 0, m |-> 0, d |-> 0]

\* datetime.strptime(s, "%d/%m/%Y").date(); ok = FALSE stands for ValueError
ParseDate(s) ==
    LET ps == SplitOn(s, "/") IN
    IF Len(ps) # 3 THEN NoDate
    ELSE IF ~(MatchDay(ps[1]) /\ MatchMonth(ps[2]) /\ MatchYear(ps[3])) THEN NoDate
    ELSE LET d == StrToInt(Strip(ps[1]))
             m == StrToInt(ps[2])
             y == StrToInt(ps[3])
         IN  IF ValidYMD(y, m, d) THEN [ok |-> TRUE, y |-> y, m |-> m, d |-> d]
             ELSE NoDate

NoTime == [ok |-> FALSE, h |-> 0, mi |-> 0]

\* datetime.strptime(s, "%H:%M").time(); ok = FALSE stands for ValueError
ParseTime(s) ==
    LET ps == SplitOn(s, ":") IN
    IF Len(ps) # 2 THEN NoTime
    ELSE IF ~(MatchHour(ps[1]) /\ MatchMinute(ps[2])) THEN NoTime
    ELSE [ok |-> TRUE, h |-> StrToInt(ps[1]), mi |-> StrToInt(ps[2])]

\* date.toordinal(): days since 31/12/0000 in the proleptic Gregorian calendar
RECURSIVE DaysBeforeMonth(_, _)
DaysBeforeMonth(y, m) ==
    IF m = 1 THEN 0 ELSE DaysBeforeMonth(y, m - 1) + DaysInMonth(y, m - 1)

ToOrdinal(y, m, d) ==
    LET p == y - 1 IN
    p * 365 + (p \div 4) - (p \div 100) + (p \div 400) + DaysBeforeMonth(y, m) + d

\* date.weekday(): 0 is Monday, 6 is Sunday
Weekday(y, m, d) == (ToOrdinal(y, m, d) + 6) % 7

(***************************************************************************)
(* affiliates.py: validators.                                              *)
(***************************************************************************)
\* convertir_fecha(cadena) does not raise ValueError
convertir_fecha_ok(cadena) == ParseDate(cadena).ok

plan_valido(p) == p \in {<<"A">>, <<"B">>, <<"C">>}

genero_valido(g) == g \in {<<"M">>, <<"F">>, <<"X">>}

correo_valido(e) == Contains(e, "@") /\ Contains(e, ".")

(***************************************************************************)
(* affiliates.py: the affiliate store and its operations.                  *)
(***************************************************************************)
\* _read_affiliates(): every row of the file, in file order
_read_affiliates == afiliados

\* the columns of the file
Campos == <<"id", "names", "surnames", "birth", "plan", "gender", "email">>

\* csv.writer (QUOTE_MINIMAL): a field is quoted when it holds the delimiter,
\* the quote character or a line terminator
NeedsQuote(f) == \E i \in 1..Len(f) : f[i] \in {",", "\"", "\r", "\n"}

\* every quote character of the field written twice
RECURSIVE DoubleQuotes(_)
DoubleQuotes(f) ==
    IF f = <<>> THEN <<>>
    ELSE (IF f[1] = "\"" THEN <<"\"", "\"">> ELSE <<f[1]>>) \o DoubleQuotes(Tail(f))

\* Mutant of CsvField: the quote characters inside a quoted field are not
\* written twice.
CsvField_NoDoubling(f) ==
    IF NeedsQuote(f) THEN <<"\"">> \o f \o <<"\"">> ELSE f

\* one field as csv.writer writes it
CsvField(f) ==
    IF NeedsQuote(f) THEN <<"\"">> \o DoubleQuotes(f) \o <<"\"">> ELSE f

\* the line DictWriter writes for one affiliate, without its terminator
RECURSIVE CsvLine(_, _)
CsvLine(af, i) ==
    IF i > Len(Campos) THEN <<>>
    ELSE (IF i > 1 THEN <<",">> ELSE <<>>) \o CsvField(af[Campos[i]]) \o CsvLine(af, i + 1)

\* csv.reader on one line: the fields, by the reader's states (start of a
\* field, in a field, in a quoted field, after a quote in a quoted field)
RECURSIVE CsvParse(_, _, _, _, _)
CsvParse(line, i, state, cur, out) ==
    IF i > Len(line) THEN Append(out, cur)
    ELSE LET c == line[i]
         IN  IF state = "start"
             THEN IF c = "\"" THEN CsvParse(line, i + 1, "quoted", cur, out)
                  ELSE IF c = "," THEN CsvParse(line, i + 1, "start", <<>>, Append(out, cur))
                  ELSE CsvParse(line, i + 1, "field", Append(cur, c), out)
             ELSE IF state = "field"
             THEN IF c = "," THEN CsvParse(line, i + 1, "start", <<>>, Append(out, cur))
                  ELSE CsvParse(line, i + 1, "field", Append(cur, c), out)
             ELSE IF state = "quoted"
             THEN IF c = "\"" THEN CsvParse(line, i + 1, "quote", cur, out)
                  ELSE CsvParse(line, i + 1, "quoted", Append(cur, c), out)
             ELSE IF c = "\"" THEN CsvParse(line, i + 1, "quoted", Append(cur, c), out)
                  ELSE IF c = "," THEN CsvParse(line, i + 1, "start", <<>>, Append(out, cur))
                  ELSE CsvParse(line, i + 1, "field", Append(cur, c), out)

\* the dictionary DictReader makes of a line: the fields under the column
\* names in order; a column the line does not reach is None, fields beyond
\* the last column are not under any column name
CsvDict(line) ==
    LET fs == CsvParse(line, 1, "start", <<>>, <<>>)
        col(i) == IF i <= Len(fs) THEN fs[i] ELSE [none |-> TRUE]
    IN  [id |-> col(1), names |-> col(2), surnames |-> col(3), birth |-> col(4),
         plan |-> col(5), gender |-> col(6), email |-> col(7)]

\* _write_affiliates(lista): the file is rewritten with one line for each row
\* of the list; the rows are kept as DictReader reads them back
_write_affiliates(lista) ==
    [i \in 1..Len(lista) |-> CsvDict(CsvLine(lista[i], 1))]

\* any(not s.strip() for s in [...])
AnyBlank(fields) == \E i \in 1..Len(fields) : Blank(fields[i])

\* Mutant of IdExists: the id is compared with the wrong column.
IdExists_WrongColumn(afs, id_afiliado) ==
    \E i \in 1..Len(afs) : afs[i].names = id_afiliado

\* any(af["id"] == id_afiliado for af in afiliados)
IdExists(afs, id_afiliado) == \E i \in 1..Len(afs) : afs[i].id = id_afiliado

\* the dictionary "nuevo"
NuevoAfiliado(id_afiliado, nombres, apellidos, nacimiento, plan, genero, correo) ==
    [id |-> id_afiliado, names |-> nombres, surnames |-> apellidos,
     birth |-> nacimiento, plan |-> plan, gender |-> genero, email |-> correo]

\* Mutant of registerAffiliateResult: the stored ids are looked up first.
registerAffiliateResult_IdFirst(afs, id_afiliado, nombres, apellidos, nacimiento, plan, genero, correo) ==
    IF IdExists(afs, id_afiliado)
    THEN "id already exists"
    ELSE IF AnyBlank(<<id_afiliado, nombres, apellidos, nacimiento, plan, genero, correo>>)
    THEN "invalid data"
    ELSE IF ~convertir_fecha_ok(nacimiento)
    THEN "invalid date format"
    ELSE IF ~plan_valido(plan) \/ ~genero_valido(genero) \/ ~correo_valido(correo)
    THEN "invalid data"
    ELSE "ok"

\* the value registerAffiliate returns, by the order of its checks
registerAffiliateResult(afs, id_afiliado, nombres, apellidos, nacimiento, plan, genero, correo) ==
    IF AnyBlank(<<id_afiliado, nombres, apellidos, nacimiento, plan, genero, correo>>)
    THEN "invalid data"
    ELSE IF ~convertir_fecha_ok(nacimiento)
    THEN "invalid date format"
    ELSE IF ~plan_valido(plan) \/ ~genero_valido(genero) \/ ~correo_valido(correo)
    THEN "invalid data"
    ELSE IF IdExists(afs, id_afiliado)
    THEN "id already exists"
    ELSE "ok"

\* Mutant of registerAffiliateStore: the row is written whatever the result.
registerAffiliateStore_Always(afs, res, nuevo) == _write_affiliates(Append(afs, nuevo))

\* the rows registerAffiliate leaves in the file
registerAffiliateStore(afs, res, nuevo) ==
    IF res = "ok" THEN _write_affiliates(Append(afs, nuevo)) ELSE afs

\* Mutant of BubbleInner: the surnames are compared without lower().
RECURSIVE BubbleInner_CaseSensitive(_, _, _)
BubbleInner_CaseSensitive(l, j, limit) ==
    IF j >= limit THEN l
    ELSE IF StrGt(l[j + 1].surnames, l[j + 2].surnames)
         THEN BubbleInner_CaseSensitive(
                  [l EXCEPT ![j + 1] = l[j + 2], ![j + 2] = l[j + 1]], j + 1, limit)
         ELSE BubbleInner_CaseSensitive(l, j + 1, limit)

\* Mutant of BubbleInner: neighbours are swapped on ">=" instead of ">".
RECURSIVE BubbleInner_SwapOnEqual(_, _, _)
BubbleInner_SwapOnEqual(l, j, limit) ==
    IF j >= limit THEN l
    ELSE IF ~StrGt(Lower(l[j + 2].surnames), Lower(l[j + 1].surnames))
         THEN BubbleInner_SwapOnEqual(
                  [l EXCEPT ![j + 1] = l[j + 2], ![j + 2] = l[j + 1]], j + 1, limit)
         ELSE BubbleInner_SwapOnEqual(l, j + 1, limit)

\* the inner loop of the bubble sort: j runs from j to limit - 1 (0-based)
RECURSIVE BubbleInner(_, _, _)
BubbleInner(l, j, limit) ==
    IF j >= limit THEN l
    ELSE IF StrGt(Lower(l[j + 1].surnames), Lower(l[j + 2].surnames))
         THEN BubbleInner([l EXCEPT ![j + 1] = l[j + 2], ![j + 2] = l[j + 1]],
                          j + 1, limit)
         ELSE BubbleInner(l, j + 1, limit)

\* the outer loop: for i in range(n)
RECURSIVE BubbleOuter(_, _)
BubbleOuter(l, i) ==
    IF i >= Len(l) THEN l
    ELSE BubbleOuter(BubbleInner(l, 0, Len(l) - i - 1), i + 1)

\* the list listAffiliates returns
listAffiliatesResult(afs) == BubbleOuter(afs, 0)

\* what searchById returns: the first row with the id, in a list of one, or
\* the empty list for None
searchByIdResult(afs, id_afiliado) ==
    IF \E i \in 1..Len(afs) : afs[i].id = id_afiliado
    THEN <<afs[CHOOSE i \in 1..Len(afs) :
                  /\ afs[i].id = id_afiliado
                  /\ \A j \in 1..(i - 1) : afs[j].id # id_afiliado]>>
    ELSE <<>>

\* calcular_edad(fecha_nacimiento), with date.today() as hoy
calcular_edad(f, hoy) ==
    hoy.y - f.y - (IF hoy.m < f.m \/ (hoy.m = f.m /\ hoy.d < f.d) THEN 1 ELSE 0)

\* stats: the list "todas_las_edades" after the loop.  The age of a row is
\* appended as soon as its birth date has parsed.
RECURSIVE TodasLasEdades(_, _)
TodasLasEdades(afs, hoy) ==
    IF afs = <<>> THEN <<>>
    ELSE (IF ParseDate(afs[1].birth).ok
          THEN <<calcular_edad(ParseDate(afs[1].birth), hoy)>>
          ELSE <<>>)
         \o TodasLasEdades(Tail(afs), hoy)

\* stats: the list "edades_por_genero[g]" after the loop
RECURSIVE EdadesPorGenero(_, _, _)
EdadesPorGenero(afs, hoy, g) ==
    IF afs = <<>> THEN <<>>
    ELSE (IF ParseDate(afs[1].birth).ok /\ afs[1].gender = g
          THEN <<calcular_edad(ParseDate(afs[1].birth), hoy)>>
          ELSE <<>>)
         \o EdadesPorGenero(Tail(afs), hoy, g)

\* stats: "totales_plan[p]" after the loop
RECURSIVE TotalesPlan(_, _)
TotalesPlan(afs, p) ==
    IF afs = <<>> THEN 0
    ELSE (IF afs[1].plan = p THEN 1 ELSE 0) + TotalesPlan(Tail(afs), p)

RECURSIVE SeqSum(_)
SeqSum(s) == IF s = <<>> THEN 0 ELSE s[1] + SeqSum(Tail(s))

SeqMin(s) == CHOOSE x \in {s[i] : i \in 1..Len(s)} : \A i \in 1..Len(s) : x <= s[i]

SeqMax(s) == CHOOSE x \in {s[i] : i \in 1..Len(s)} : \A i \in 1..Len(s) : x >= s[i]

Planes == {<<"A">>, <<"B">>, <<"C">>}

Generos == {<<"M">>, <<"F">>, <<"X">>}

\* the dictionary stats returns ({} for an empty file); a mean is kept as the
\* sum of the ages and their number
statsResult(afs, hoy) ==
    IF afs = <<>>
    THEN [vacio |-> TRUE,
          totales |-> [p \in Planes |-> 0],
          promedios_por_genero |-> [g \in Generos |-> <<0, 0>>],
          edad_minima |-> 0, edad_maxima |-> 0]
    ELSE [vacio |-> FALSE,
          totales |-> [p \in Planes |-> TotalesPlan(afs, p)],
          promedios_por_genero |->
              [g \in Generos |-> <<SeqSum(EdadesPorGenero(afs, hoy, g)),
                                    Len(EdadesPorGenero(afs, hoy, g))>>],
          edad_minima |-> IF TodasLasEdades(afs, hoy) # <<>>
                          THEN SeqMin(TodasLasEdades(afs, hoy)) ELSE 0,
          edad_maxima |-> IF TodasLasEdades(afs, hoy) # <<>>
                          THEN SeqMax(TodasLasEdades(afs, hoy)) ELSE 0]

(***************************************************************************)
(* Users (users.txt) and the lookup the clinical layer uses.               *)
(***************************************************************************)
None == [none |-> TRUE]

\* _load_users(): every record of the file, in file order
_load_users == users

\* _find_user(lista, nombre): the first record with that name, or None
_find_user(lista, nombre) ==
    IF \E i \in 1..Len(lista) : lista[i].name = nombre
    THEN lista[CHOOSE i \in 1..Len(lista) :
                   /\ lista[i].name = nombre
                   /\ \A j \in 1..(i - 1) : lista[j].name # nombre]
    ELSE None

findUser(nombre) == _find_user(_load_users, nombre)

\* Mutant of GetSession: a record without the key counts as an open session.
GetSession_DefaultTrue(u) == IF "session" \in DOMAIN u THEN u.session ELSE TRUE

\* u.get("session", False)
GetSession(u) == IF "session" \in DOMAIN u THEN u.session ELSE FALSE

\* Mutant of NotLoggedIn: the session flag is not looked at.
NotLoggedIn_IgnoresSession(u, password) ==
    \/ u = None
    \/ u.password # password

\* not u or u.get("password") != password or not u.get("session", False)
NotLoggedIn(u, password) ==
    \/ u = None
    \/ u.password # password
    \/ ~GetSession(u)

(***************************************************************************)
(* clinical.py: the appointment store and its operations.                  *)
(***************************************************************************)
\* _load_jsonl(APPTS_FILE): every record of the file, in file order
_load_jsonl == citas

\* _rewrite_jsonl(APPTS_FILE, rows): the file is rewritten with exactly these records
_rewrite_jsonl(rows) == rows

\* max(int(r.get("id", 0)) for r in rows)
RECURSIVE MaxId(_)
MaxId(rows) ==
    IF Len(rows) = 1 THEN StrToInt(rows[1].id)
    ELSE LET m == MaxId(Tail(rows))
             h == StrToInt(rows[1].id)
         IN  IF h > m THEN h ELSE m

\* Mutant of _next_id: the maximum is taken over the appointments that are
\* still scheduled.
_next_id_ScheduledOnly(rows) ==
    LET act == SelectSeq(rows, LAMBDA r : r.status = "scheduled")
    IN  IF act = <<>> THEN <<"1">> ELSE IntToStr(MaxId(act) + 1)

\* Mutant of _next_id: the records are counted instead of taking the maximum.
_next_id_Count(rows) == IntToStr(Len(rows) + 1)

_next_id(rows) == IF rows = <<>> THEN <<"1">> ELSE IntToStr(MaxId(rows) + 1)

\* Mutant of _valid_slot: the upper limit 16:00 is exclusive.
_valid_slot_Exclusive(date_str, time_str) ==
    LET fecha == ParseDate(date_str)
        hora == ParseTime(time_str)
    IN  IF ~fecha.ok \/ ~hora.ok THEN "invalid data"
        ELSE IF Weekday(fecha.y, fecha.m, fecha.d) > 4 THEN "out of range"
        ELSE IF ~(8 * 60 <= hora.h * 60 + hora.mi /\ hora.h * 60 + hora.mi < 16 * 60)
        THEN "out of range"
        ELSE IF hora.mi \notin {0, 30} THEN "out of range"
        ELSE "ok"

_valid_slot(date_str, time_str) ==
    LET fecha == ParseDate(date_str)
        hora == ParseTime(time_str)
    IN  IF ~fecha.ok \/ ~hora.ok THEN "invalid data"
        ELSE IF Weekday(fecha.y, fecha.m, fecha.d) > 4 THEN "out of range"
        ELSE IF ~(8 * 60 <= hora.h * 60 + hora.mi /\ hora.h * 60 + hora.mi <= 16 * 60)
        THEN "out of range"
        ELSE IF hora.mi \notin {0, 30} THEN "out of range"
        ELSE "ok"

\* doctor absent, or doctor.get("role") != "doctor"
DoctorNotFound(doctor) == doctor = None \/ doctor.role # "doctor"

\* Mutant of SlotTaken: only the most recent record is compared.
SlotTaken_LastOnly(cs, doctor_name, date_str, time_str) ==
    /\ cs # <<>>
    /\ cs[Len(cs)].doctor = doctor_name
    /\ cs[Len(cs)].date = date_str
    /\ cs[Len(cs)].time = time_str
    /\ cs[Len(cs)].status = "scheduled"

\* any(c["doctor"] == doctor_name and c["date"] == date_str and
\*     c["time"] == time_str and c["status"] == "scheduled" for c in citas)
SlotTaken(cs, doctor_name, date_str, time_str) ==
    \E i \in 1..Len(cs) :
        /\ cs[i].doctor = doctor_name
        /\ cs[i].date = date_str
        /\ cs[i].time = time_str
        /\ cs[i].status = "scheduled"

\* Mutant of scheduleAppointmentResult: the patient is authenticated before
\* the doctor is looked up.
scheduleAppointmentResult_PatientFirst(cs, patient_name, patient_password, doctor_name, date_str, time_str) ==
    IF AnyBlank(<<patient_name, patient_password, doctor_name, date_str, time_str>>)
    THEN "invalid data"
    ELSE IF NotLoggedIn(findUser(patient_name), patient_password)
    THEN "user not logged in"
    ELSE IF DoctorNotFound(findUser(doctor_name))
    THEN "doctor not found"
    ELSE IF _valid_slot(date_str, time_str) # "ok"
    THEN _valid_slot(date_str, time_str)
    ELSE IF SlotTaken(cs, doctor_name, date_str, time_str)
    THEN "slot taken"
    ELSE "ok"

\* the value scheduleAppointment returns, by the order of its checks
scheduleAppointmentResult(cs, patient_name, patient_password, doctor_name, date_str, time_str) ==
    IF AnyBlank(<<patient_name, patient_password, doctor_name, date_str, time_str>>)
    THEN "invalid data"
    ELSE IF DoctorNotFound(findUser(doctor_name))
    THEN "doctor not found"
    ELSE IF NotLoggedIn(findUser(patient_name), patient_password)
    THEN "user not logged in"
    ELSE IF _valid_slot(date_str, time_str) # "ok"
    THEN _valid_slot(date_str, time_str)
    ELSE IF SlotTaken(cs, doctor_name, date_str, time_str)
    THEN "slot taken"
    ELSE "ok"

\* the dictionary "nueva_cita"
NuevaCita(cs, patient_name, doctor_name, date_str, time_str) ==
    [id |-> _next_id(cs), patient |-> patient_name, doctor |-> doctor_name,
     date |-> date_str, time |-> time_str, status |-> "scheduled"]

\* Mutant of scheduleAppointmentStore: cancelled appointments are dropped when
\* the file is rewritten.
scheduleAppointmentStore_Compact(cs, res, nueva_cita) ==
    IF res = "ok"
    THEN _rewrite_jsonl(Append(SelectSeq(cs, LAMBDA c : c.status = "scheduled"),
                               nueva_cita))
    ELSE cs

\* Mutant of scheduleAppointmentStore: the record is written before the checks.
scheduleAppointmentStore_Always(cs, res, nueva_cita) ==
    _rewrite_jsonl(Append(cs, nueva_cita))

\* the records scheduleAppointment leaves in the file
scheduleAppointmentStore(cs, res, nueva_cita) ==
    IF res = "ok" THEN _rewrite_jsonl(Append(cs, nueva_cita)) ELSE cs

\* Mutant of FilterCitas: cancelled appointments are left out.
RECURSIVE FilterCitas_ScheduledOnly(_, _)
FilterCitas_ScheduledOnly(cs, name) ==
    IF cs = <<>> THEN <<>>
    ELSE (IF (cs[1].patient = name \/ cs[1].doctor = name) /\ cs[1].status = "scheduled"
          THEN <<cs[1]>> ELSE <<>>)
         \o FilterCitas_ScheduledOnly(Tail(cs), name)

\* the list listAppointments returns once the user is authenticated
RECURSIVE FilterCitas(_, _)
FilterCitas(cs, name) ==
    IF cs = <<>> THEN <<>>
    ELSE (IF cs[1].patient = name \/ cs[1].doctor = name THEN <<cs[1]>> ELSE <<>>)
         \o FilterCitas(Tail(cs), name)

\* Mutant of CancelMatch: the owner of the appointment is not compared.
CancelMatch_AnyPatient(c, patient_name, appointment_id) ==
    /\ c.id = appointment_id
    /\ c.status = "scheduled"

\* the condition of the loop of cancelAppointment on one record
CancelMatch(c, patient_name, appointment_id) ==
    /\ c.id = appointment_id
    /\ c.patient = patient_name
    /\ c.status = "scheduled"

\* the position (1-based) of the record the loop modifies before "break", or 0
CancelIndex(cs, patient_name, appointment_id) ==
    IF \E i \in 1..Len(cs) : CancelMatch(cs[i], patient_name, appointment_id)
    THEN CHOOSE i \in 1..Len(cs) :
             /\ CancelMatch(cs[i], patient_name, appointment_id)
             /\ \A j \in 1..(i - 1) : ~CancelMatch(cs[j], patient_name, appointment_id)
    ELSE 0

\* the value cancelAppointment returns
cancelAppointmentResult(cs, patient_name, patient_password, appointment_id) ==
    IF NotLoggedIn(findUser(patient_name), patient_password)
    THEN "user not logged in"
    ELSE IF CancelIndex(cs, patient_name, appointment_id) = 0
    THEN "not found"
    ELSE "ok"

\* Mutant of cancelAppointmentStore: the record is removed instead of marked.
cancelAppointmentStore_Delete(cs, res, patient_name, appointment_id) ==
    IF res = "ok"
    THEN LET k == CancelIndex(cs, patient_name, appointment_id)
         IN  _rewrite_jsonl(SubSeq(cs, 1, k - 1) \o SubSeq(cs, k + 1, Len(cs)))
    ELSE cs

\* Mutant of cancelAppointmentStore: the modified list is never written back.
cancelAppointmentStore_NoSave(cs, res, patient_name, appointment_id) == cs

\* the records cancelAppointment leaves in the file
cancelAppointmentStore(cs, res, patient_name, appointment_id) ==
    IF res = "ok"
    THEN _rewrite_jsonl([cs EXCEPT ![CancelIndex(cs, patient_name, appointment_id)].status
                                       = "cancelled"])
    ELSE cs

(***************************************************************************)
(* Arguments the affiliate operations are called with.                     *)
(***************************************************************************)
IdIn == {<<"1">>, <<"2">>, <<"3">>, <<"1", "0">>, <<" ">>}

NamesIn == {<<"\"", ",", "A">>, <<>>}

SurnamesIn == {<<"a">>, <<"B">>, <<"b">>}

\* 29/02/2024 is a date, 31/02/2024 is not
BirthIn == {<<"2", "9", "/", "0", "2", "/", "2", "0", "2", "4">>,
            <<"3", "1", "/", "0", "2", "/", "2", "0", "2", "4">>}

PlanIn == {<<"A">>, <<"D">>}

GenderIn == {<<"M">>, <<"\t">>}

EmailIn == {<<"a", "@", "b", ".", "c">>, <<"a", "@", "b">>}

NoCall == [op |-> "none", args |-> <<>>, result |-> "", ret |-> <<>>, pre |-> <<>>]

(***************************************************************************)
(* Users on file and the arguments the clinical operations are called      *)
(* with.  "cid" has closed its session, "eve" never opened one (the record *)
(* has no "session" key), "zed" is no user.                                *)
(***************************************************************************)
s_ana == <<"a", "n", "a">>
s_bob == <<"b", "o", "b">>
s_cid == <<"c", "i", "d">>
s_eve == <<"e", "v", "e">>
s_doc == <<"d", "o", "c">>
s_zed == <<"z", "e", "d">>

UsersOnFile ==
    << [name |-> s_ana, password |-> <<"x">>, role |-> "patient", session |-> TRUE],
       [name |-> s_bob, password |-> <<"y">>, role |-> "patient", session |-> TRUE],
       [name |-> s_cid, password |-> <<"x">>, role |-> "patient", session |-> FALSE],
       [name |-> s_eve, password |-> <<"x">>, role |-> "patient"],
       [name |-> s_doc, password |-> <<"x">>, role |-> "doctor", session |-> TRUE] >>

UserNames == {UsersOnFile[i].name : i \in 1..Len(UsersOnFile)}

\* two requests may be in progress at once
Procs == {1, 2}

IdleProc ==
    [pc |-> "idle", op |-> "none", args |-> <<>>, base |-> <<>>, local |-> <<>>,
     result |-> ""]

PatientIn == {s_ana, s_bob, s_cid, s_eve, s_zed}

PasswordIn == {<<"x">>, <<"y">>}

DoctorIn == {s_doc, s_ana, s_zed}

\* 15/03/2024 is a Friday, 16/03/2024 a Saturday, 31/02/2024 no date
DateIn == {<<"1", "5", "/", "0", "3", "/", "2", "0", "2", "4">>,
           <<"1", "6", "/", "0", "3", "/", "2", "0", "2", "4">>,
           <<"3", "1", "/", "0", "2", "/", "2", "0", "2", "4">>}

TimeIn == {<<"0", "8", ":", "0", "0">>, <<"8", ":", "0", "0">>,
           <<"1", "6", ":", "3", "0">>, <<" ">>}

\* ids of stored appointments and one more
ApptIdIn == {IntToStr(n) : n \in 1..(MaxCitas + 1)}

Init ==
    /\ afiliados = <<>>
    /\ citas = <<>>
    /\ users = UsersOnFile
    /\ last = NoCall
    /\ registered = <<>>
    /\ cancelled = {}
    /\ opened = [n \in UserNames |-> "none"]
    /\ procs = [p \in Procs |-> IdleProc]

registerAffiliate ==
    \E id_afiliado \in IdIn, nombres \in NamesIn, apellidos \in SurnamesIn,
       nacimiento \in BirthIn, plan \in PlanIn, genero \in GenderIn, correo \in EmailIn :
        LET afs == _read_affiliates
            res == registerAffiliateResult(afs, id_afiliado, nombres, apellidos,
                                           nacimiento, plan, genero, correo)
            nuevo == NuevoAfiliado(id_afiliado, nombres, apellidos,
                                   nacimiento, plan, genero, correo)
        IN  /\ last = NoCall
            /\ res = "ok" => Len(afs) < MaxAff
            /\ afiliados' = registerAffiliateStore(afs, res, nuevo)
            /\ last' = [op |-> "registerAffiliate",
                        args |-> <<id_afiliado, nombres, apellidos,
                                   nacimiento, plan, genero, correo>>,
                        result |-> res, ret |-> <<>>, pre |-> afs]
            /\ registered' = IF res = "ok" THEN Append(registered, nuevo) ELSE registered
            /\ UNCHANGED <<citas, users, cancelled, opened, procs>>

\* Mutant of listAffiliates: the list is sorted in the file itself.
listAffiliates_InPlace ==
    /\ last = NoCall
    /\ afiliados' = _write_affiliates(listAffiliatesResult(_read_affiliates))
    /\ last' = [op |-> "listAffiliates", args |-> <<>>, result |-> "",
                ret |-> listAffiliatesResult(_read_affiliates), pre |-> afiliados]
    /\ UNCHANGED <<citas, users, registered, cancelled, opened, procs>>

listAffiliates ==
    /\ last = NoCall
    /\ last' = [op |-> "listAffiliates", args |-> <<>>, result |-> "",
                ret |-> listAffiliatesResult(_read_affiliates), pre |-> afiliados]
    /\ UNCHANGED <<afiliados, citas, users, registered, cancelled, opened, procs>>

\* the route handler returns the response (jsonify) and the request is over
respond ==
    /\ last # NoCall
    /\ last' = NoCall
    /\ UNCHANGED <<afiliados, citas, users, registered, cancelled, opened, procs>>

\* the days on which a request is served
HoyIn == {[y |-> 2026, m |-> 11, d |-> 1], [y |-> 2026, m |-> 2, d |-> 28]}

stats ==
    \E hoy \in HoyIn :
        /\ last = NoCall
        /\ last' = [op |-> "stats", args |-> <<hoy>>, result |-> "",
                    ret |-> <<statsResult(_read_affiliates, hoy)>>, pre |-> afiliados]
        /\ UNCHANGED <<afiliados, citas, users, registered, cancelled, opened, procs>>

searchById ==
    \E id_afiliado \in IdIn :
        /\ last = NoCall
        /\ last' = [op |-> "searchById", args |-> <<id_afiliado>>, result |-> "",
                    ret |-> searchByIdResult(_read_affiliates, id_afiliado),
                    pre |-> afiliados]
        /\ UNCHANGED <<afiliados, citas, users, registered, cancelled, opened, procs>>

NextAff == registerAffiliate \/ listAffiliates \/ searchById \/ stats \/ respond

SpecAff == Init /\ [][NextAff]_vars

scheduleAppointment ==
    \E patient_name \in PatientIn, patient_password \in PasswordIn,
       doctor_name \in DoctorIn, date_str \in DateIn, time_str \in TimeIn :
        LET cs == _load_jsonl
            res == scheduleAppointmentResult(cs, patient_name, patient_password,
                                             doctor_name, date_str, time_str)
            nueva_cita == NuevaCita(cs, patient_name, doctor_name, date_str, time_str)
        IN  /\ last = NoCall
            /\ res = "ok" => Len(cs) < MaxCitas
            /\ citas' = scheduleAppointmentStore(cs, res, nueva_cita)
            /\ last' = [op |-> "scheduleAppointment",
                        args |-> <<patient_name, patient_password, doctor_name,
                                   date_str, time_str>>,
                        result |-> res, ret |-> <<>>, pre |-> cs]
            /\ UNCHANGED <<afiliados, users, registered, cancelled, opened, procs>>

listAppointments ==
    \E name \in PatientIn \cup {s_doc}, password \in PasswordIn :
        LET res == IF NotLoggedIn(findUser(name), password)
                   THEN "user not logged in" ELSE ""
        IN  /\ last = NoCall
            /\ last' = [op |-> "listAppointments", args |-> <<name, password>>,
                        result |-> res,
                        ret |-> IF res = "" THEN FilterCitas(_load_jsonl, name) ELSE <<>>,
                        pre |-> citas]
            /\ UNCHANGED <<afiliados, citas, users, registered, cancelled, opened, procs>>

\* Mutant of cancelAppointment: a successful cancellation also closes the
\* patient's session and rewrites the users file.
cancelAppointment_ClosesSession ==
    \E patient_name \in PatientIn, patient_password \in PasswordIn,
       appointment_id \in ApptIdIn :
        LET cs == _load_jsonl
            res == cancelAppointmentResult(cs, patient_name, patient_password,
                                           appointment_id)
        IN  /\ last = NoCall
            /\ citas' = cancelAppointmentStore(cs, res, patient_name, appointment_id)
            /\ users' = IF res = "ok"
                         THEN [i \in 1..Len(users) |->
                                  IF users[i].name = patient_name
                                  THEN [name |-> users[i].name,
                                        password |-> users[i].password,
                                        role |-> users[i].role, session |-> FALSE]
                                  ELSE users[i]]
                         ELSE users
            /\ last' = [op |-> "cancelAppointment",
                        args |-> <<patient_name, patient_password, appointment_id>>,
                        result |-> res, ret |-> <<>>, pre |-> cs]
            /\ cancelled' = IF res = "ok" THEN cancelled \cup {appointment_id}
                                            ELSE cancelled
            /\ UNCHANGED <<afiliados, registered, opened, procs>>

cancelAppointment ==
    \E patient_name \in PatientIn, patient_password \in PasswordIn,
       appointment_id \in ApptIdIn :
        LET cs == _load_jsonl
            res == cancelAppointmentResult(cs, patient_name, patient_password,
                                           appointment_id)
        IN  /\ last = NoCall
            /\ citas' = cancelAppointmentStore(cs, res, patient_name, appointment_id)
            /\ last' = [op |-> "cancelAppointment",
                        args |-> <<patient_name, patient_password, appointment_id>>,
                        result |-> res, ret |-> <<>>, pre |-> cs]
            /\ cancelled' = IF res = "ok" THEN cancelled \cup {appointment_id}
                                            ELSE cancelled
            /\ UNCHANGED <<afiliados, users, registered, opened, procs>>

NextClin == scheduleAppointment \/ listAppointments \/ cancelAppointment \/ respond

SpecClin == Init /\ [][NextClin]_vars

(***************************************************************************)
(* Sessions.  openCloseSession is called by user_session_route; its body   *)
(* is not part of the sources and is taken from its specification: not     *)
(* found if there is no such user, invalid data if the password does not   *)
(* match, else session is set to the value asked for and the file is       *)
(* rewritten.                                                              *)
(***************************************************************************)
MaxSess == 1

SessNameIn == {s_ana, s_eve, s_zed}

openCloseSessionResult(name, password) ==
    IF findUser(name) = None THEN "not found"
    ELSE IF findUser(name).password # password THEN "invalid data"
    ELSE "ok"

\* the user records with the session of the first record of this name set
SetSession(us, name, session) ==
    LET i == CHOOSE k \in 1..Len(us) :
                 us[k].name = name /\ \A j \in 1..(k - 1) : us[j].name # name
    IN  [us EXCEPT ![i] = [name |-> us[i].name, password |-> us[i].password,
                           role |-> us[i].role, session |-> session]]

openCloseSession ==
    \E name \in SessNameIn, password \in PasswordIn, session \in BOOLEAN :
        LET res == openCloseSessionResult(name, password)
        IN  /\ last = NoCall
            /\ users' = IF res = "ok" THEN SetSession(_load_users, name, session)
                                      ELSE users
            /\ opened' = IF res = "ok"
                          THEN [opened EXCEPT ![name] = IF session THEN "open" ELSE "closed"]
                          ELSE opened
            /\ last' = [op |-> "openCloseSession", args |-> <<name, password, session>>,
                        result |-> res, ret |-> <<>>, pre |-> <<>>]
            /\ UNCHANGED <<afiliados, citas, registered, cancelled, procs>>

NextSess ==
    \/ openCloseSession
    \/ scheduleAppointment /\ Len(citas') <= MaxSess
    \/ listAppointments
    \/ cancelAppointment
    \/ respond

SpecSess == Init /\ [][NextSess]_vars

(***************************************************************************)
(* The whole server: the affiliate and the appointment operations over the *)
(* three files, with the two growing files bounded together.               *)
(***************************************************************************)
MaxTotal == 1

Small == Len(afiliados) + Len(citas) <= MaxTotal

Next ==
    \/ registerAffiliate /\ Small'
    \/ listAffiliates
    \/ searchById
    \/ stats
    \/ scheduleAppointment /\ Small'
    \/ listAppointments
    \/ cancelAppointment
    \/ respond

Spec == Init /\ [][Next]_vars

(***************************************************************************)
(* Two requests in progress at once (the Flask development server answers  *)
(* each request in a thread of its own and the functions take no lock).    *)
(* A mutating function reads the whole file, checks and changes the list   *)
(* in memory, and writes the whole file back: the read and the write are   *)
(* separate steps, and steps of the other request may come between them.   *)
(***************************************************************************)
MaxConc == 2

ConcScheduleIn ==
    {<<s_ana, <<"x">>, s_doc, <<"1", "5", "/", "0", "3", "/", "2", "0", "2", "4">>,
       <<"0", "8", ":", "0", "0">>>>,
     <<s_bob, <<"y">>, s_doc, <<"1", "5", "/", "0", "3", "/", "2", "0", "2", "4">>,
       <<"0", "8", ":", "0", "0">>>>,
     <<s_bob, <<"y">>, s_doc, <<"1", "5", "/", "0", "3", "/", "2", "0", "2", "4">>,
       <<"8", ":", "0", "0">>>>}

ConcCancelIn == {<<s_ana, <<"x">>, <<"1">>>>, <<s_bob, <<"y">>, <<"1">>>>,
                 <<s_bob, <<"y">>, <<"2">>>>}

ConcRegisterIn ==
    {<<id, <<"A", "n", "a">>, <<"a">>,
       <<"2", "9", "/", "0", "2", "/", "2", "0", "2", "4">>, <<"A">>, <<"M">>,
       <<"a", "@", "b", ".", "c">>>> : id \in {<<"1">>, <<"2">>}}

\* the list "citas" of cancelAppointment once the loop has changed the status
CancelledIn(cs, patient_name, appointment_id) ==
    [cs EXCEPT ![CancelIndex(cs, patient_name, appointment_id)].status = "cancelled"]

\* a request that returned at one of its checks, before any write
Returned(op, args, cs, res) ==
    [pc |-> "done", op |-> op, args |-> args, base |-> cs, local |-> cs, result |-> res]

\* a request that has read the file and holds the changed list in memory
Loaded(op, args, cs, lista) ==
    [pc |-> "loaded", op |-> op, args |-> args, base |-> cs, local |-> lista,
     result |-> ""]

\* scheduleAppointment up to "citas.append(nueva_cita)"
scheduleLoad(p) ==
    \E a \in ConcScheduleIn :
        LET cs == _load_jsonl
            res == scheduleAppointmentResult(cs, a[1], a[2], a[3], a[4], a[5])
        IN  /\ procs[p].pc = "idle"
            /\ res = "ok" => Len(cs) < MaxConc
            /\ procs' = [procs EXCEPT ![p] =
                   IF res = "ok"
                   THEN Loaded("scheduleAppointment", a, cs,
                               Append(cs, NuevaCita(cs, a[1], a[3], a[4], a[5])))
                   ELSE Returned("scheduleAppointment", a, cs, res)]
            /\ UNCHANGED <<afiliados, citas, users, last, registered, cancelled, opened>>

\* Mutant of scheduleSave: the file is read again and the records of the list
\* in memory that it lacks are added to it.
scheduleSave_Merge(p) ==
    /\ procs[p].pc = "loaded"
    /\ procs[p].op = "scheduleAppointment"
    /\ citas' = citas \o SelectSeq(procs[p].local,
                                   LAMBDA r : \A i \in 1..Len(citas) : citas[i] # r)
    /\ procs' = [procs EXCEPT ![p].pc = "done", ![p].result = "ok"]
    /\ UNCHANGED <<afiliados, users, last, registered, cancelled, opened>>

\* Mutant of scheduleSave: the new record is appended to what the file holds
\* at the time of the write.
scheduleSave_Append(p) ==
    /\ procs[p].pc = "loaded"
    /\ procs[p].op = "scheduleAppointment"
    /\ citas' = Append(citas, procs[p].local[Len(procs[p].local)])
    /\ procs' = [procs EXCEPT ![p].pc = "done", ![p].result = "ok"]
    /\ UNCHANGED <<afiliados, users, last, registered, cancelled, opened>>

\* scheduleAppointment: "_rewrite_jsonl(APPTS_FILE, citas)" and "return ok"
scheduleSave(p) ==
    /\ procs[p].pc = "loaded"
    /\ procs[p].op = "scheduleAppointment"
    /\ citas' = _rewrite_jsonl(procs[p].local)
    /\ procs' = [procs EXCEPT ![p].pc = "done", ![p].result = "ok"]
    /\ UNCHANGED <<afiliados, users, last, registered, cancelled, opened>>

\* cancelAppointment up to the end of its loop
cancelLoad(p) ==
    \E a \in ConcCancelIn :
        LET cs == _load_jsonl
            res == cancelAppointmentResult(cs, a[1], a[2], a[3])
        IN  /\ procs[p].pc = "idle"
            /\ procs' = [procs EXCEPT ![p] =
                   IF res = "ok"
                   THEN Loaded("cancelAppointment", a, cs, CancelledIn(cs, a[1], a[3]))
                   ELSE Returned("cancelAppointment", a, cs, res)]
            /\ UNCHANGED <<afiliados, citas, users, last, registered, cancelled, opened>>

\* Mutant of cancelSave: the file is read again and the status is changed in
\* what it holds at the time of the write.
cancelSave_InPlace(p) ==
    /\ procs[p].pc = "loaded"
    /\ procs[p].op = "cancelAppointment"
    /\ citas' = IF CancelIndex(citas, procs[p].args[1], procs[p].args[3]) = 0
                 THEN citas
                 ELSE CancelledIn(citas, procs[p].args[1], procs[p].args[3])
    /\ cancelled' = cancelled \cup {procs[p].args[3]}
    /\ procs' = [procs EXCEPT ![p].pc = "done", ![p].result = "ok"]
    /\ UNCHANGED <<afiliados, users, last, registered, opened>>

\* cancelAppointment: "_rewrite_jsonl(APPTS_FILE, citas)" and "return ok"
cancelSave(p) ==
    /\ procs[p].pc = "loaded"
    /\ procs[p].op = "cancelAppointment"
    /\ citas' = _rewrite_jsonl(procs[p].local)
    /\ cancelled' = cancelled \cup {procs[p].args[3]}
    /\ procs' = [procs EXCEPT ![p].pc = "done", ![p].result = "ok"]
    /\ UNCHANGED <<afiliados, users, last, registered, opened>>

\* registerAffiliate up to "afiliados.append(nuevo)"
registerLoad(p) ==
    \E a \in ConcRegisterIn :
        LET afs == _read_affiliates
            res == registerAffiliateResult(afs, a[1], a[2], a[3], a[4], a[5], a[6], a[7])
        IN  /\ procs[p].pc = "idle"
            /\ res = "ok" => (Len(afs) < MaxConc /\ Len(registered) < MaxConc)
            /\ procs' = [procs EXCEPT ![p] =
                   IF res = "ok"
                   THEN Loaded("registerAffiliate", a, afs,
                               Append(afs, NuevoAfiliado(a[1], a[2], a[3], a[4], a[5],
                                                         a[6], a[7])))
                   ELSE Returned("registerAffiliate", a, afs, res)]
            /\ UNCHANGED <<afiliados, citas, users, last, registered, cancelled, opened>>

\* registerAffiliate: "_write_affiliates(afiliados)" and "return ok"
registerSave(p) ==
    /\ procs[p].pc = "loaded"
    /\ procs[p].op = "registerAffiliate"
    /\ afiliados' = _write_affiliates(procs[p].local)
    /\ registered' = Append(registered, procs[p].local[Len(procs[p].local)])
    /\ procs' = [procs EXCEPT ![p].pc = "done", ![p].result = "ok"]
    /\ UNCHANGED <<citas, users, last, cancelled, opened>>

\* the route handler sends the answer
finish(p) ==
    /\ procs[p].pc = "done"
    /\ procs' = [procs EXCEPT ![p] = IdleProc]
    /\ UNCHANGED <<afiliados, citas, users, last, registered, cancelled, opened>>

\* concurrent requests on the appointment file
NextConc ==
    \E p \in Procs :
        \/ scheduleLoad(p)
        \/ scheduleSave(p)
        \/ cancelLoad(p)
        \/ cancelSave(p)
        \/ finish(p)

SpecConc == Init /\ [][NextConc]_vars

\* concurrent requests on the affiliate file
NextConcAff ==
    \E p \in Procs :
        \/ registerLoad(p)
        \/ registerSave(p)
        \/ finish(p)

SpecConcAff == Init /\ [][NextConcAff]_vars

(***************************************************************************)
(* stats over the affiliate file as it is found on disk.  stats reads       *)
(* whatever rows the file holds and guards against rows it cannot use, so   *)
(* the rows here have all seven columns but any text in birth, plan and     *)
(* gender.  The day the request is served is part of the input.            *)
(***************************************************************************)
MaxStatRows == 2

StatBirthIn == {<<"2", "9", "/", "0", "2", "/", "2", "0", "2", "4">>,
                <<"1", "5", "/", "0", "3", "/", "1", "9", "9", "0">>,
                <<"3", "1", "/", "0", "2", "/", "2", "0", "2", "4">>}

StatGenderIn == {<<"M">>, <<"F">>, <<"Z">>}

StatPlanIn == {<<"A">>, <<"D">>}

StatRow(i, birth, plan, gender) ==
    [id |-> IntToStr(i), names |-> <<"A", "n", "a">>, surnames |-> <<"a">>,
     birth |-> birth, plan |-> plan, gender |-> gender,
     email |-> <<"a", "@", "b", ".", "c">>]

StatFiles ==
    UNION {{[i \in 1..n |-> StatRow(i, b[i], pl[i], g[i])] :
               b \in [1..n -> StatBirthIn], pl \in [1..n -> StatPlanIn],
               g \in [1..n -> StatGenderIn]} : n \in 0..MaxStatRows}

InitStats ==
    /\ afiliados \in StatFiles
    /\ citas = <<>>
    /\ users = UsersOnFile
    /\ last = NoCall
    /\ registered = <<>>
    /\ cancelled = {}
    /\ opened = [n \in UserNames |-> "none"]
    /\ procs = [p \in Procs |-> IdleProc]

NextStats == stats \/ respond

SpecStats == InitStats /\ [][NextStats]_vars

(***************************************************************************)
(* _next_id on appointment files whose ids are not 1..n: the file holds    *)
(* cancelled appointments with distinct ids out of 1, 2, 5 and 9, in any   *)
(* order, and appointments are scheduled on top of it.                     *)
(***************************************************************************)
GapIds == {<<"1">>, <<"2">>, <<"5">>, <<"9">>}

OldCita(id) ==
    [id |-> id, patient |-> s_bob, doctor |-> s_doc,
     date |-> <<"1", "5", "/", "0", "3", "/", "2", "0", "2", "4">>,
     time |-> <<"0", "8", ":", "0", "0">>, status |-> "cancelled"]

GapStores ==
    {[i \in 1..Len(ids) |-> OldCita(ids[i])] :
        ids \in {s \in UNION {[1..n -> GapIds] : n \in 0..(MaxCitas - 1)} :
                    \A i, j \in 1..Len(s) : i # j => s[i] # s[j]}}

InitIds ==
    /\ afiliados = <<>>
    /\ citas \in GapStores
    /\ users = UsersOnFile
    /\ last = NoCall
    /\ registered = <<>>
    /\ cancelled = {}
    /\ opened = [n \in UserNames |-> "none"]
    /\ procs = [p \in Procs |-> IdleProc]

NextIds == scheduleAppointment \/ respond

SpecIds == InitIds /\ [][NextIds]_vars

(***************************************************************************)
(* _valid_slot as a function of its two strings.  Dates are put together   *)
(* from day, month and year parts and times from hour and minute parts,    *)
(* well-formed or not.                                                     *)
(***************************************************************************)
SlotDayIn == {<<"1", "5">>, <<"1", "6">>, <<"1", "7">>, <<"3", "1">>, <<"9">>, <<"0">>}
SlotMonthIn == {<<"0", "3">>, <<"0", "2">>, <<"1", "3">>}
SlotYearIn == {<<"2", "0", "2", "4">>, <<"2", "4">>}
SlotDateIn ==
    {d \o <<"/">> \o m \o <<"/">> \o y :
        d \in SlotDayIn, m \in SlotMonthIn, y \in SlotYearIn}

SlotHourIn == {<<"0", "7">>, <<"0", "8">>, <<"8">>, <<"1", "6">>, <<"1", "7">>,
               <<"2", "4">>, <<"A">>}
SlotMinuteIn == {<<"0", "0">>, <<"3", "0">>, <<"1", "5">>, <<"5", "9">>,
                 <<"6", "0">>, <<"0">>}
SlotTimeIn ==
    {h \o <<":">> \o mi : h \in SlotHourIn, mi \in SlotMinuteIn}
    \cup {<<"0", "8", "0", "0">>, <<>>}

validSlot ==
    /\ last = NoCall
    /\ \E date_str \in SlotDateIn, time_str \in SlotTimeIn :
           last' = [op |-> "_valid_slot", args |-> <<date_str, time_str>>,
                    result |-> _valid_slot(date_str, time_str),
                    ret |-> <<>>, pre |-> <<>>]
    /\ UNCHANGED <<afiliados, citas, users, registered, cancelled, opened, procs>>

NextSlot == validSlot \/ respond

SpecSlot == Init /\ [][NextSlot]_vars

(***************************************************************************)
(* Properties.                                                             *)
(***************************************************************************)
SameSlot(c, doctor_name, date_str, time_str) ==
    c.doctor = doctor_name /\ c.date = date_str /\ c.time = time_str

\* C1: after any serialized sequence of registerAffiliate calls from an empty
\* store, every id occurs at most once among the stored affiliates.
C1_IdsUnique ==
    \A i, j \in 1..Len(afiliados) :
        i # j => afiliados[i].id # afiliados[j].id

\* C1 witness: the store holds two affiliates and a registration with a
\* stored id has just been refused.
C1_Witness ==
    /\ Len(afiliados) >= 2
    /\ last.op = "registerAffiliate"
    /\ last.result = "id already exists"

\* C2: after any serialized sequence of scheduleAppointment and
\* cancelAppointment calls, at most one appointment with status scheduled is
\* stored for each (doctor, date, time) triple.
C2_OneScheduledPerSlot ==
    \A i, j \in 1..Len(citas) :
        (/\ i # j
         /\ citas[i].status = "scheduled"
         /\ citas[j].status = "scheduled")
        => ~SameSlot(citas[i], citas[j].doctor, citas[j].date, citas[j].time)

\* C2 witness: two appointments on the same triple are stored, one of them
\* scheduled, and two scheduled appointments are stored on different triples.
C2_Witness ==
    /\ \E i, j \in 1..Len(citas) :
           /\ i # j
           /\ SameSlot(citas[i], citas[j].doctor, citas[j].date, citas[j].time)
           /\ citas[j].status = "scheduled"
    /\ \E i, j \in 1..Len(citas) :
           /\ i # j
           /\ citas[i].status = "scheduled"
           /\ citas[j].status = "scheduled"

\* the first four checks of scheduleAppointment pass for these arguments
ScheduleOtherwiseValid(a) ==
    /\ ~AnyBlank(a)
    /\ ~DoctorNotFound(findUser(a[3]))
    /\ ~NotLoggedIn(findUser(a[1]), a[2])
    /\ _valid_slot(a[4], a[5]) = "ok"

\* C3: an otherwise valid scheduleAppointment on a triple that already holds
\* an appointment returns "slot taken" while an appointment on the triple has
\* not been cancelled by cancelAppointment, and "ok" once every appointment
\* on the triple has been cancelled by cancelAppointment.
C3_SlotTakenUntilCancelled ==
    (/\ last.op = "scheduleAppointment"
     /\ ScheduleOtherwiseValid(last.args)
     /\ \E i \in 1..Len(last.pre) :
            SameSlot(last.pre[i], last.args[3], last.args[4], last.args[5]))
    => LET held == {i \in 1..Len(last.pre) :
                       SameSlot(last.pre[i], last.args[3], last.args[4], last.args[5])}
       IN  /\ (\E i \in held : last.pre[i].id \notin cancelled)
               => last.result = "slot taken"
           /\ (\A i \in held : last.pre[i].id \in cancelled)
               => last.result = "ok"

\* C3 witness: a request on a triple whose only appointment was cancelled has
\* been answered "ok".
C3_Witness ==
    /\ last.op = "scheduleAppointment"
    /\ last.result = "ok"
    /\ \E i \in 1..Len(last.pre) :
           /\ SameSlot(last.pre[i], last.args[3], last.args[4], last.args[5])
           /\ last.pre[i].id \in cancelled

\* C4: a new appointment starts as scheduled, the only change of a status is
\* scheduled to cancelled, a cancelled appointment stays cancelled and stored
\* in every later state, and no other status is ever stored.
C4_StatusMachine ==
    /\ [](\A i \in 1..Len(citas) : citas[i].status \in {"scheduled", "cancelled"})
    /\ [][/\ Len(citas') >= Len(citas)
          /\ \A i \in 1..Len(citas) :
                 /\ citas'[i].id = citas[i].id
                 /\ citas[i].status = "cancelled" => citas'[i].status = "cancelled"
                 /\ citas'[i].status # citas[i].status
                        => citas[i].status = "scheduled" /\ citas'[i].status = "cancelled"
          /\ \A i \in (Len(citas) + 1)..Len(citas') : citas'[i].status = "scheduled"
         ]_vars

\* C4 witness: an appointment was cancelled by an earlier call, later calls
\* have scheduled and cancelled other appointments, and it is still cancelled.
C4_Witness ==
    /\ last.op = "cancelAppointment"
    /\ last.result = "ok"
    /\ \E i, j \in 1..Len(citas) :
           /\ i < j
           /\ last.pre[i].status = "cancelled"
           /\ citas[i].status = "cancelled"
           /\ last.pre[j].status = "scheduled"
           /\ citas[j].status = "cancelled"

\* C5: cancelAppointment by an authenticated, logged-in patient returns
\* "not found" and leaves the appointment store unchanged when the
\* appointment with the given id is already cancelled, belongs to a different
\* patient, or does not exist.
C5_CancelNotFound ==
    (/\ last.op = "cancelAppointment"
     /\ ~NotLoggedIn(findUser(last.args[1]), last.args[2])
     /\ \A i \in 1..Len(last.pre) :
            last.pre[i].id = last.args[3]
            => (last.pre[i].status = "cancelled" \/ last.pre[i].patient # last.args[1]))
    => (last.result = "not found" /\ citas = last.pre)

\* C5 witness: a logged-in patient asked to cancel a scheduled appointment of
\* another patient while the store also holds a cancelled appointment.
C5_Witness ==
    /\ last.op = "cancelAppointment"
    /\ last.result = "not found"
    /\ \E i \in 1..Len(last.pre) :
           /\ last.pre[i].id = last.args[3]
           /\ last.pre[i].status = "scheduled"
           /\ last.pre[i].patient # last.args[1]
    /\ \E i \in 1..Len(last.pre) : last.pre[i].status = "cancelled"

\* a user on file under this name whose password is the one given and whose
\* session flag is false or absent
SessionClosed(name, password) ==
    \E i \in 1..Len(users) :
        /\ users[i].name = name
        /\ \A j \in 1..(i - 1) : users[j].name # name
        /\ users[i].password = password
        /\ ("session" \in DOMAIN users[i] => users[i].session = FALSE)

ClinicalOps == {"scheduleAppointment", "listAppointments", "cancelAppointment"}

\* C6 as stated: for a user whose session flag is false or absent,
\* scheduleAppointment, listAppointments and cancelAppointment called with
\* the user's name and password all return "user not logged in", whatever
\* the other arguments.
C6_Original ==
    (last.op \in ClinicalOps /\ SessionClosed(last.args[1], last.args[2]))
    => last.result = "user not logged in"

\* C6 amended: for such a user listAppointments and cancelAppointment return
\* "user not logged in" whatever the other arguments; scheduleAppointment
\* returns "invalid data" when a field is blank, else "doctor not found" when
\* the doctor is absent or has another role, else "user not logged in"; it
\* never returns "ok" and the appointment store is unchanged.
C6_SessionClosed ==
    (last.op \in ClinicalOps /\ SessionClosed(last.args[1], last.args[2]))
    => /\ last.op \in {"listAppointments", "cancelAppointment"}
           => last.result = "user not logged in"
       /\ last.op = "scheduleAppointment"
           => last.result =
                  IF AnyBlank(last.args) THEN "invalid data"
                  ELSE IF DoctorNotFound(findUser(last.args[3])) THEN "doctor not found"
                  ELSE "user not logged in"
       /\ citas = last.pre

\* C6 witness: a user whose record has no session key asked for a free, valid
\* slot of a doctor and was answered "user not logged in".
C6_Witness ==
    /\ last.op = "scheduleAppointment"
    /\ last.args[1] = s_eve
    /\ SessionClosed(last.args[1], last.args[2])
    /\ _valid_slot(last.args[4], last.args[5]) = "ok"
    /\ last.result = "user not logged in"

\* every field passes the validation of registerAffiliate
FieldsValid(a) ==
    /\ ~AnyBlank(a)
    /\ convertir_fecha_ok(a[4])
    /\ plan_valido(a[5]) /\ genero_valido(a[6]) /\ correo_valido(a[7])

IdStored(afs, id) == \E i \in 1..Len(afs) : afs[i].id = id

\* C7 as stated: registerAffiliate called with an id that is already stored
\* returns "id already exists" whether or not the other fields are valid.
C7_Original ==
    (last.op = "registerAffiliate" /\ IdStored(last.pre, last.args[1]))
    => last.result = "id already exists"

\* C7 amended: registerAffiliate called with an id that is already stored
\* returns "id already exists" when every field passes validation, and the
\* error of the failing validation ("invalid data" or "invalid date format")
\* otherwise; it never returns "ok" and the store is unchanged.
C7_DuplicateId ==
    (last.op = "registerAffiliate" /\ IdStored(last.pre, last.args[1]))
    => /\ FieldsValid(last.args) => last.result = "id already exists"
       /\ ~FieldsValid(last.args) => last.result \in {"invalid data", "invalid date format"}
       /\ afiliados = last.pre

\* C7 witness: a registration with a stored id and valid fields was answered
\* "id already exists".
C7_Witness ==
    /\ last.op = "registerAffiliate"
    /\ IdStored(last.pre, last.args[1])
    /\ FieldsValid(last.args)
    /\ last.result = "id already exists"

\* C8: registerAffiliate answers by the earliest failing check: blank field,
\* then birth date, then plan / gender / email, then stored id; else "ok".
C8_RegisterOrder ==
    last.op = "registerAffiliate"
    => LET a == last.args
           blank == AnyBlank(a)
           badDate == ~convertir_fecha_ok(a[4])
           badEnum == ~plan_valido(a[5]) \/ ~genero_valido(a[6]) \/ ~correo_valido(a[7])
           dup == IdStored(last.pre, a[1])
       IN  /\ blank => last.result = "invalid data"
           /\ (~blank /\ badDate) => last.result = "invalid date format"
           /\ (~blank /\ ~badDate /\ badEnum) => last.result = "invalid data"
           /\ (~blank /\ ~badDate /\ ~badEnum /\ dup) => last.result = "id already exists"
           /\ (~blank /\ ~badDate /\ ~badEnum /\ ~dup) => last.result = "ok"

\* C8 witness: a call with a birth that is no date, an unknown plan and a
\* stored id was answered "invalid date format".
C8_Witness ==
    /\ last.op = "registerAffiliate"
    /\ ~AnyBlank(last.args)
    /\ ~convertir_fecha_ok(last.args[4])
    /\ ~plan_valido(last.args[5])
    /\ IdStored(last.pre, last.args[1])
    /\ last.result = "invalid date format"

\* a scheduled appointment on this triple is stored
SlotHeld(cs, doctor_name, date_str, time_str) ==
    \E i \in 1..Len(cs) :
        SameSlot(cs[i], doctor_name, date_str, time_str) /\ cs[i].status = "scheduled"

\* C9: scheduleAppointment answers by the earliest failing check: blank
\* field, then doctor, then patient login, then slot validation, then slot
\* collision; it returns "ok" only when all five pass.
C9_ScheduleOrder ==
    last.op = "scheduleAppointment"
    => LET a == last.args
           blank == AnyBlank(a)
           noDoctor == LET d == findUser(a[3]) IN d = None \/ d.role # "doctor"
           noLogin == LET u == findUser(a[1])
                      IN  u = None \/ u.password # a[2] \/ ~GetSession(u)
           slot == _valid_slot(a[4], a[5])
           taken == SlotHeld(last.pre, a[3], a[4], a[5])
       IN  /\ blank => last.result = "invalid data"
           /\ (~blank /\ noDoctor) => last.result = "doctor not found"
           /\ (~blank /\ ~noDoctor /\ noLogin) => last.result = "user not logged in"
           /\ (~blank /\ ~noDoctor /\ ~noLogin /\ slot # "ok") => last.result = slot
           /\ (~blank /\ ~noDoctor /\ ~noLogin /\ slot = "ok" /\ taken)
                  => last.result = "slot taken"
           /\ last.result = "ok"
                  <=> (~blank /\ ~noDoctor /\ ~noLogin /\ slot = "ok" /\ ~taken)

\* C9 witness: a call that names no doctor, comes from a user who is not
\* logged in and asks for a Saturday was answered "doctor not found".
C9_Witness ==
    /\ last.op = "scheduleAppointment"
    /\ ~AnyBlank(last.args)
    /\ DoctorNotFound(findUser(last.args[3]))
    /\ NotLoggedIn(findUser(last.args[1]), last.args[2])
    /\ _valid_slot(last.args[4], last.args[5]) = "out of range"
    /\ last.result = "doctor not found"

\* the number of positions of s that hold r
Count(s, r) == Cardinality({i \in 1..Len(s) : s[i] = r})

IsPermutation(s, t) ==
    /\ Len(s) = Len(t)
    /\ \A i \in 1..Len(t) : Count(s, t[i]) = Count(t, t[i])

\* C10: listAffiliates returns a permutation of the stored rows, ascending
\* by lower-cased surname; after N successful registrations these are
\* exactly the N registered records.
C10_ListSorted ==
    last.op = "listAffiliates"
    => /\ IsPermutation(last.ret, afiliados)
       /\ IsPermutation(last.ret, registered)
       /\ \A i, j \in 1..Len(last.ret) :
              i < j => ~StrGt(Lower(last.ret[i].surnames), Lower(last.ret[j].surnames))

\* C10 witness: the store holds an upper-case surname before a lower-case
\* one that sorts first ignoring case, and the list returned is reordered.
C10_Witness ==
    /\ last.op = "listAffiliates"
    /\ Len(afiliados) >= 2
    /\ afiliados[1].surnames = <<"B">>
    /\ afiliados[2].surnames = <<"a">>
    /\ last.ret[1] = afiliados[2]
    /\ last.ret # afiliados

\* the position of row r in the list s
Pos(s, r) == CHOOSE k \in 1..Len(s) : s[k] = r

\* C11: listAffiliates is stable: two affiliates whose surnames are equal
\* ignoring case come out in the relative order they have in the store.
C11_ListStable ==
    last.op = "listAffiliates"
    => \A i, j \in 1..Len(afiliados) :
           (i < j /\ Lower(afiliados[i].surnames) = Lower(afiliados[j].surnames))
           => /\ \E k \in 1..Len(last.ret) : last.ret[k] = afiliados[i]
              /\ \E k \in 1..Len(last.ret) : last.ret[k] = afiliados[j]
              /\ Pos(last.ret, afiliados[i]) < Pos(last.ret, afiliados[j])

\* C11 witness: the store holds "B" before "b" (equal ignoring case, and
\* ordered the other way by code point) and the list has been returned.
C11_Witness ==
    /\ last.op = "listAffiliates"
    /\ \E i, j \in 1..Len(afiliados) :
           /\ i < j
           /\ afiliados[i].surnames = <<"b">>
           /\ afiliados[j].surnames = <<"B">>
           /\ Pos(last.ret, afiliados[i]) < Pos(last.ret, afiliados[j])

\* the ids of the records of cs, in file order
IdsOf(cs) == [i \in 1..Len(cs) |-> cs[i].id]

\* C12: a successfully scheduled appointment gets as id the decimal string of
\* the largest stored numeric id plus one, or "1" when the store is empty;
\* gaps are not filled (stored ids 1, 2, 5 give 6).
C12_NextId ==
    (last.op = "scheduleAppointment" /\ last.result = "ok")
    => /\ Len(citas) = Len(last.pre) + 1
       /\ LET new == citas[Len(citas)].id
          IN  /\ new = IntToStr(StrToInt(new))
              /\ last.pre = <<>> => new = <<"1">>
              /\ last.pre # <<>> =>
                     /\ \E i \in 1..Len(last.pre) :
                            StrToInt(new) = StrToInt(last.pre[i].id) + 1
                     /\ \A i \in 1..Len(last.pre) :
                            StrToInt(last.pre[i].id) < StrToInt(new)
              /\ IdsOf(last.pre) = <<<<"1">>, <<"2">>, <<"5">>>> => new = <<"6">>
              /\ IdsOf(last.pre) = <<<<"5">>, <<"1">>>> => new = <<"6">>
              /\ IdsOf(last.pre) = <<<<"2">>, <<"9">>>> => new = <<"1", "0">>

\* C12 witness: the file held the ids 5 and 1, in this order, and the new
\* appointment has been stored with id 6.
C12_Witness ==
    /\ last.op = "scheduleAppointment"
    /\ last.result = "ok"
    /\ IdsOf(last.pre) = <<<<"5">>, <<"1">>>>
    /\ citas[Len(citas)].id = <<"6">>

\* the time of day in minutes
MinuteOfDay(t) == t.h * 60 + t.mi

\* the slot lies on a weekend, outside 08:00..16:00 or off the half hour
OutOfRange(d, t) ==
    \/ Weekday(d.y, d.m, d.d) \in {5, 6}
    \/ MinuteOfDay(t) < 8 * 60
    \/ MinuteOfDay(t) > 16 * 60
    \/ t.mi \notin {0, 30}

\* C13: the slot validator returns "invalid data" iff the date or the time
\* does not parse; otherwise "out of range" iff the date is a Saturday or a
\* Sunday, the time is outside 08:00..16:00 inclusive or the minute is neither
\* 0 nor 30; otherwise "ok".  16:00 is accepted, 16:30 is rejected, and
\* 31/02/2024 is invalid data.
C13_ValidSlot ==
    last.op = "_valid_slot"
    => LET d == ParseDate(last.args[1])
           t == ParseTime(last.args[2])
           friday == <<"1", "5", "/", "0", "3", "/", "2", "0", "2", "4">>
       IN  /\ last.result = "invalid data" <=> (~d.ok \/ ~t.ok)
           /\ (d.ok /\ t.ok)
              => /\ last.result = "out of range" <=> OutOfRange(d, t)
                 /\ last.result = "ok" <=> ~OutOfRange(d, t)
           /\ last.args = <<friday, <<"1", "6", ":", "0", "0">>>>
              => last.result = "ok"
           /\ last.args = <<friday, <<"1", "6", ":", "3", "0">>>>
              => last.result = "out of range"
           /\ last.args[1] = <<"3", "1", "/", "0", "2", "/", "2", "0", "2", "4">>
              => last.result = "invalid data"

\* C13 witness: 16:00 on a Friday has been validated and accepted.
C13_Witness ==
    /\ last.op = "_valid_slot"
    /\ last.args = <<<<"1", "5", "/", "0", "3", "/", "2", "0", "2", "4">>,
                     <<"1", "6", ":", "0", "0">>>>
    /\ last.result = "ok"

\* the user record of name holds this password and an open session
LoggedInWith(name, password) ==
    \E i \in 1..Len(users) :
        /\ users[i].name = name
        /\ users[i].password = password
        /\ "session" \in DOMAIN users[i]
        /\ users[i].session

\* the positions of the appointments in which name is patient or doctor
MineIn(cs, name) == {i \in 1..Len(cs) : cs[i].patient = name \/ cs[i].doctor = name}

\* C14: for a logged-in user with the right password listAppointments returns
\* exactly the stored appointments whose patient or doctor is the user,
\* cancelled ones included; an appointment cancelled by cancelAppointment is
\* still in the list.
C14_ListExact ==
    (last.op = "listAppointments" /\ LoggedInWith(last.args[1], last.args[2]))
    => /\ last.result = ""
       /\ {last.ret[k] : k \in 1..Len(last.ret)}
              = {citas[i] : i \in MineIn(citas, last.args[1])}
       /\ Len(last.ret) = Cardinality(MineIn(citas, last.args[1]))
       /\ \A i \in MineIn(citas, last.args[1]) :
              citas[i].id \in cancelled
              => \E k \in 1..Len(last.ret) :
                     last.ret[k] = citas[i] /\ last.ret[k].status = "cancelled"

\* C14 witness: the doctor lists the appointments; the list holds one that
\* its patient cancelled and one that is still scheduled.
C14_Witness ==
    /\ last.op = "listAppointments"
    /\ last.args[1] = s_doc
    /\ last.result = ""
    /\ \E k \in 1..Len(last.ret) :
           last.ret[k].id \in cancelled /\ last.ret[k].status = "cancelled"
    /\ \E k \in 1..Len(last.ret) : last.ret[k].status = "scheduled"

\* C14, the patient's side: ana's list holds her cancelled appointment and
\* leaves out the one of bob that is stored beside it.
C14_WitnessPatient ==
    /\ last.op = "listAppointments"
    /\ last.args[1] = s_ana
    /\ last.result = ""
    /\ \E k \in 1..Len(last.ret) : last.ret[k].status = "cancelled"
    /\ \E i \in 1..Len(citas) : citas[i].patient = s_bob
    /\ \A k \in 1..Len(last.ret) : last.ret[k].patient = s_ana

\* C15: a call of registerAffiliate, scheduleAppointment or cancelAppointment
\* that returns a result other than "ok" leaves the affiliate, appointment and
\* user files as they were before the call.
C15_FailureWritesNothing ==
    [][(/\ last'.op \in {"registerAffiliate", "scheduleAppointment", "cancelAppointment"}
        /\ last'.result # "ok")
       => (afiliados' = afiliados /\ citas' = citas /\ users' = users)]_vars

\* C15 witness: a registration was refused for its id while an affiliate is
\* on file, and the file is the one read at the start of the call.
C15_Witness ==
    /\ last.op = "registerAffiliate"
    /\ last.result = "id already exists"
    /\ afiliados # <<>>
    /\ afiliados = last.pre

\* C15, the appointment side: a slot was refused as taken and the file still
\* holds just the appointment that takes it.
C15_WitnessSlotTaken ==
    /\ last.op = "scheduleAppointment"
    /\ last.result = "slot taken"
    /\ Len(citas) = 1
    /\ citas = last.pre

\* both requests changed the appointment list in memory and answered ok
BothSaved(p, q) ==
    /\ p # q
    /\ procs[p].pc = "done" /\ procs[p].result = "ok"
    /\ procs[q].pc = "done" /\ procs[q].result = "ok"

\* C16: when two mutating requests on the appointment file both load before
\* either saves, the file ends as one of the two lists written, the one of the
\* later save, so what the earlier request wrote is gone although it answered
\* ok.
C16_LastWriterWins ==
    \A p, q \in Procs :
        (BothSaved(p, q) /\ procs[p].base = procs[q].base)
        => /\ citas \in {procs[p].local, procs[q].local}
           /\ procs[p].local # procs[q].local
              => \/ \E i \in 1..Len(procs[p].local) :
                        i > Len(citas) \/ citas[i] # procs[p].local[i]
                 \/ \E i \in 1..Len(procs[q].local) :
                        i > Len(citas) \/ citas[i] # procs[q].local[i]

\* C16 witness: request 1 scheduled an appointment and answered ok, request 2
\* saved after it, and no record of the file is the one request 1 added.
C16_Witness ==
    /\ BothSaved(1, 2)
    /\ procs[1].op = "scheduleAppointment"
    /\ procs[1].base = procs[2].base
    /\ \A i \in 1..Len(citas) : citas[i] # procs[1].local[Len(procs[1].local)]

\* the last successful openCloseSession of this user closed the session
ClosedByUser(name) == name \in DOMAIN opened /\ opened[name] = "closed"

\* the last successful openCloseSession of this user opened the session
OpenedByUser(name) == name \in DOMAIN opened /\ opened[name] = "open"

\* C17 as stated: after a successful openCloseSession(name, password, false)
\* and until a later successful openCloseSession(name, password, true),
\* scheduleAppointment, listAppointments and cancelAppointment by that user
\* return "user not logged in".
C17_Original ==
    (last.op \in ClinicalOps /\ ClosedByUser(last.args[1]))
    => last.result = "user not logged in"

\* C17 amended: in that time listAppointments and cancelAppointment by that
\* user return "user not logged in"; scheduleAppointment returns "invalid
\* data" when a field is blank, else "doctor not found" when the doctor is
\* absent or has another role, else "user not logged in"; nothing is stored.
\* After a successful openCloseSession(name, password, true) none of the
\* three returns "user not logged in" to that user with that password.
C17_SessionGate ==
    /\ (last.op \in ClinicalOps /\ ClosedByUser(last.args[1]))
       => /\ last.op \in {"listAppointments", "cancelAppointment"}
              => last.result = "user not logged in"
          /\ last.op = "scheduleAppointment"
              => last.result =
                     IF AnyBlank(last.args) THEN "invalid data"
                     ELSE IF \A i \in 1..Len(users) :
                                 users[i].name = last.args[3] => users[i].role # "doctor"
                          THEN "doctor not found"
                          ELSE "user not logged in"
          /\ citas = last.pre
    /\ (/\ last.op \in ClinicalOps
        /\ OpenedByUser(last.args[1])
        /\ \E i \in 1..Len(users) :
               users[i].name = last.args[1] /\ users[i].password = last.args[2])
       => last.result # "user not logged in"

\* C17 witness: ana closed her session and then asked for a valid slot of a
\* doctor with her password; the answer was "user not logged in".
C17_Witness ==
    /\ last.op = "scheduleAppointment"
    /\ last.args = <<s_ana, <<"x">>, s_doc,
                     <<"1", "5", "/", "0", "3", "/", "2", "0", "2", "4">>,
                     <<"0", "8", ":", "0", "0">>>>
    /\ ClosedByUser(s_ana)
    /\ last.result = "user not logged in"

\* C17, the other direction: eve, whose record had no session key, opened a
\* session and her appointment was stored.
C17_WitnessOpened ==
    /\ last.op = "scheduleAppointment"
    /\ last.args[1] = s_eve
    /\ OpenedByUser(s_eve)
    /\ last.result = "ok"
    /\ Len(citas) = Len(last.pre) + 1

\* the rows with a birth date that parses and a gender out of M, F and X
Counted(afs) ==
    {i \in 1..Len(afs) : ParseDate(afs[i].birth).ok /\ afs[i].gender \in Generos}

\* the age of row i on the day hoy
AgeOf(afs, i, hoy) == calcular_edad(ParseDate(afs[i].birth), hoy)

\* C18 as stated: the minimum and maximum age stats returns are taken over
\* exactly the rows with a parseable birth date and a recognized gender; rows
\* with a malformed birth date or an unrecognized gender count for neither.
C18_Original ==
    (last.op = "stats" /\ afiliados # <<>>)
    => LET ages == {AgeOf(afiliados, i, last.args[1]) : i \in Counted(afiliados)}
       IN  /\ ages = {} => (last.ret[1].edad_minima = 0 /\ last.ret[1].edad_maxima = 0)
           /\ ages # {}
              => /\ last.ret[1].edad_minima \in ages
                 /\ last.ret[1].edad_maxima \in ages
                 /\ \A a \in ages : /\ last.ret[1].edad_minima <= a
                                    /\ a <= last.ret[1].edad_maxima

\* C19: searchById(id) returns a stored affiliate whose id is the argument,
\* or nothing when no stored affiliate has that id; once registerAffiliate
\* has returned ok for an id, searchById of that id returns a record whose
\* seven fields are the registered arguments.
C19_SearchById ==
    last.op = "searchById"
    => /\ last.ret = <<>> <=> \A i \in 1..Len(afiliados) : afiliados[i].id # last.args[1]
       /\ last.ret # <<>>
          => /\ Len(last.ret) = 1
             /\ last.ret[1].id = last.args[1]
             /\ \E i \in 1..Len(afiliados) : afiliados[i] = last.ret[1]
       /\ \A k \in 1..Len(registered) :
              registered[k].id = last.args[1]
              => /\ last.ret # <<>>
                 /\ \A c \in {"id", "names", "surnames", "birth", "plan", "gender", "email"} :
                        last.ret[1][c] = registered[k][c]

\* C19 witness: the second affiliate registered, whose names hold a quote
\* character and a comma, has been searched for and found.
C19_Witness ==
    /\ last.op = "searchById"
    /\ Len(registered) = 2
    /\ last.args[1] = registered[2].id
    /\ last.ret = <<registered[2]>>
    /\ last.ret[1].names = <<"\"", ",", "A">>

\* the positions at which two appointment lists of the same length differ
Changed(old, new) == {i \in 1..Len(old) : new[i] # old[i]}

\* C20: a successful scheduleAppointment appends one record (status
\* scheduled, patient, doctor, date and time as given) and leaves the records
\* before it as they were; a successful cancelAppointment changes the status,
\* and nothing else, of one record, the first with the id and the patient
\* given that is scheduled, and keeps the number of records; no other call
\* changes the appointment store.
C20_Frame ==
    last.op \in ClinicalOps
    => IF last.op = "scheduleAppointment" /\ last.result = "ok"
       THEN /\ Len(citas) = Len(last.pre) + 1
            /\ \A i \in 1..Len(last.pre) : citas[i] = last.pre[i]
            /\ citas[Len(citas)].status = "scheduled"
            /\ citas[Len(citas)].patient = last.args[1]
            /\ citas[Len(citas)].doctor = last.args[3]
            /\ citas[Len(citas)].date = last.args[4]
            /\ citas[Len(citas)].time = last.args[5]
       ELSE IF last.op = "cancelAppointment" /\ last.result = "ok"
       THEN /\ Len(citas) = Len(last.pre)
            /\ Cardinality(Changed(last.pre, citas)) = 1
            /\ \A k \in Changed(last.pre, citas) :
                   /\ last.pre[k].id = last.args[3]
                   /\ last.pre[k].patient = last.args[1]
                   /\ last.pre[k].status = "scheduled"
                   /\ \A j \in 1..(k - 1) :
                          ~(/\ last.pre[j].id = last.args[3]
                            /\ last.pre[j].patient = last.args[1]
                            /\ last.pre[j].status = "scheduled")
                   /\ citas[k].status = "cancelled"
                   /\ \A c \in {"id", "patient", "doctor", "date", "time"} :
                          citas[k][c] = last.pre[k][c]
       ELSE citas = last.pre

\* C20 witness: the second of three appointments has been cancelled; the
\* first and the third are as they were.
C20_Witness ==
    /\ last.op = "cancelAppointment"
    /\ last.result = "ok"
    /\ Len(citas) = 3
    /\ Changed(last.pre, citas) = {2}
    /\ citas[2].status = "cancelled"

\* C20, scheduling: an appointment was appended behind a cancelled one, which
\* is still in the store.
C20_WitnessSchedule ==
    /\ last.op = "scheduleAppointment"
    /\ last.result = "ok"
    /\ Len(citas) = 2
    /\ citas[1].status = "cancelled"
    /\ citas[1] = last.pre[1]

\* C21: a record for which registerAffiliate returned ok stays in the
\* affiliate store with its seven fields as registered through every later
\* registerAffiliate, listAffiliates, searchById and stats call; the store is
\* in insertion order and listAffiliates does not reorder it.
C21_RegisteredStays ==
    /\ Len(afiliados) = Len(registered)
    /\ \A k \in 1..Len(registered) :
           \A c \in {"id", "names", "surnames", "birth", "plan", "gender", "email"} :
               afiliados[k][c] = registered[k][c]
    /\ last.op \in {"listAffiliates", "searchById", "stats"} => afiliados = last.pre
    /\ last.op = "registerAffiliate"
       => /\ Len(last.pre) <= Len(afiliados)
          /\ \A k \in 1..Len(last.pre) : afiliados[k] = last.pre[k]

\* C21 witness: "b" was registered before "B" and before "a"; listAffiliates
\* has answered with another order and the store is still in the order of
\* registration.
C21_Witness ==
    /\ last.op = "listAffiliates"
    /\ Len(registered) = 2
    /\ registered[1].surnames = <<"b">>
    /\ registered[2].surnames = <<"a">>
    /\ last.ret[1].surnames = <<"a">>
    /\ afiliados[1].surnames = <<"b">>
    /\ afiliados[2].surnames = <<"a">>

\* C22: scheduleAppointment, listAppointments and cancelAppointment leave the
\* user store as it was, whatever they return: the same users with the same
\* password, role and session flag.
C22_UsersUntouched ==
    [][last'.op \in ClinicalOps => users' = users]_vars

\* C22 witness: eve opened a session, so the user store is no longer the one
\* found at start, and her cancellation was answered ok; her record still has
\* the open session.
C22_Witness ==
    /\ last.op = "cancelAppointment"
    /\ last.args[1] = s_eve
    /\ last.result = "ok"
    /\ users # UsersOnFile
    /\ \E i \in 1..Len(users) :
           /\ users[i].name = s_eve
           /\ "session" \in DOMAIN users[i]
           /\ users[i].session

\* C23: after any serialized sequence of scheduleAppointment and
\* cancelAppointment calls from an empty store the ids of the stored
\* appointments are pairwise distinct, and the id given to a new appointment
\* is the id of no appointment stored or cancelled before.
C23_IdsNeverReused ==
    /\ \A i, j \in 1..Len(citas) : i # j => citas[i].id # citas[j].id
    /\ \A id \in cancelled : \E i \in 1..Len(citas) : citas[i].id = id
    /\ (last.op = "scheduleAppointment" /\ last.result = "ok")
       => /\ \A i \in 1..Len(last.pre) : last.pre[i].id # citas[Len(citas)].id
          /\ citas[Len(citas)].id \notin cancelled

\* C23 witness: the only appointment was cancelled and its slot has been
\* scheduled again, under another id.
C23_Witness ==
    /\ last.op = "scheduleAppointment"
    /\ last.result = "ok"
    /\ Len(citas) = 2
    /\ citas[1].status = "cancelled"
    /\ citas[1].id \in cancelled
    /\ SameSlot(citas[2], citas[1].doctor, citas[1].date, citas[1].time)
    /\ citas[2].id # citas[1].id

\* at most one scheduled appointment on each (doctor, date, time) and no id
\* twice in this list
WellFormed(cs) ==
    \A i, j \in 1..Len(cs) :
        i # j
        => /\ cs[i].id # cs[j].id
           /\ (cs[i].status = "scheduled" /\ cs[j].status = "scheduled")
              => ~SameSlot(cs[i], cs[j].doctor, cs[j].date, cs[j].time)

\* C24: however the load and save steps of concurrent scheduleAppointment and
\* cancelAppointment calls interleave, the appointment store has at most one
\* scheduled appointment on each (doctor, date, time) and pairwise distinct
\* ids; so has every list a request holds in memory to save, which is a list
\* that was stored plus one validated change.
C24_StoreWellFormed ==
    /\ WellFormed(citas)
    /\ \A p \in Procs : procs[p].pc = "loaded" => WellFormed(procs[p].local)

\* C24 witness: two requests loaded the same list, asked for the same slot of
\* the same doctor for two patients, and both saved and answered ok.
C24_Witness ==
    /\ BothSaved(1, 2)
    /\ procs[1].op = "scheduleAppointment"
    /\ procs[2].op = "scheduleAppointment"
    /\ procs[1].base = procs[2].base
    /\ procs[1].args[1] # procs[2].args[1]
    /\ procs[1].args[3] = procs[2].args[3]
    /\ procs[1].args[4] = procs[2].args[4]
    /\ procs[1].args[5] = procs[2].args[5]

\* request p cancelled and request q scheduled on the same loaded list, and
\* both answered ok
CancelAgainstSchedule(p, q) ==
    /\ BothSaved(p, q)
    /\ procs[p].op = "cancelAppointment"
    /\ procs[q].op = "scheduleAppointment"
    /\ procs[p].base = procs[q].base

\* C25: when a scheduleAppointment loads before a concurrent cancelAppointment
\* saves, the store ends as the list of the one that saved later; if that is
\* the scheduleAppointment, the appointment cancelled with result ok is
\* stored as it was loaded, scheduled, and if it is the cancelAppointment, the
\* appointment is cancelled and the new one is not stored.
C25_CancelUndone ==
    \A p, q \in Procs :
        CancelAgainstSchedule(p, q)
        => /\ citas \in {procs[p].local, procs[q].local}
           /\ \A k \in Changed(procs[p].base, procs[p].local) :
                  /\ procs[p].base[k].status = "scheduled"
                  /\ citas = procs[q].local
                     => /\ citas[k] = procs[p].base[k]
                        /\ Len(citas) = Len(procs[p].base) + 1
                  /\ citas = procs[p].local
                     => /\ citas[k].status = "cancelled"
                        /\ Len(citas) = Len(procs[p].base)

\* C25 witness: request 1 cancelled an appointment and answered ok, its id is
\* among the cancelled ones, and the store holds that appointment with status
\* scheduled, behind it the one request 2 added.
C25_Witness ==
    /\ CancelAgainstSchedule(1, 2)
    /\ procs[1].args[3] \in cancelled
    /\ \E k \in 1..Len(citas) :
           /\ citas[k].id = procs[1].args[3]
           /\ citas[k].patient = procs[1].args[1]
           /\ citas[k] = procs[1].base[k]
           /\ citas[k].status = "scheduled"
           /\ procs[1].local[k].status = "cancelled"
    /\ Len(citas) = Len(procs[1].base) + 1

====
